---- MODULE Spec2Model ----
(***************************************************************************)
(* AI-Persona-Lab: the chat orchestration of src/chat/interface.py         *)
(* (ChatInterface) driven by the Streamlit script of src/app.py (main).    *)
(*                                                                         *)
(* One script run of main() is one action.  A run that ends in st.rerun()  *)
(* leaves pc = "rerun" (or "merged" after a chat turn) and the only        *)
(* enabled action is then the follow-up run, Rerun.  The chat turn itself  *)
(* is split at its suspension points: the coroutines of get_all_responses  *)
(* are started in list order (Launch), each one finishes when its HTTP     *)
(* call returns or times out (Resolve, in any order), and asyncio.gather   *)
(* hands the results back once all are finished (Merge).                   *)
(*                                                                         *)
(* Temperatures are in tenths (7 is 0.7).  A text is a sequence of tokens; *)
(* " " is a whitespace token.                                              *)
(***************************************************************************)
EXTENDS Integers, Sequences, FiniteSets, TLC

\* ---------------------------------------------------------------- bounds
MaxPersonas == 2
MaxLog == 3
MaxChanges == 1

\* ------------------------------------------------------ program constants
TempMin == 0
TempMax == 10
TokensMin == 50
TokensMax == 2000

\* ------------------------------------------------------------ input sets
Ids == 1..MaxPersonas
Models == {"m1", "m2"}
\* names the generator's backend reply gives a new persona
GeneratedNames == {"Bob"}
\* what a user submits in the edit form
EditForms ==
    {[name |-> "Cy", model |-> "m2", temperature |-> 2, max_tokens |-> TokensMin]}
Prompts == {<<"hello">>}
\* values a user picks on the in-range sliders and number inputs
WidgetTemps == {2}
WidgetTokens == {TokensMax}
\* replies of the backend that carry a "response" field
Replies == {<<" ", "Hi there!", " ">>, <<" ">>}
\* what the backend does with one request
Backends ==
    {[kind |-> "reply", text |-> r] : r \in Replies}
        \cup {[kind |-> k, text |-> <<>>] : k \in {"status", "nofield", "silent"}}

VARIABLES
    personas,               \* persona_manager's store, in list order
    nextId,                 \* ids handed out so far + 1
    settings,               \* persona_manager.settings
    selected_model,         \* st.session_state.selected_model
    temperature,            \* st.session_state.temperature
    max_tokens,             \* st.session_state.max_tokens
    edit_persona_id,        \* st.session_state.edit_persona_id, 0 when absent
    messages,               \* st.session_state.messages
    active_personas,        \* st.session_state.active_personas
    persona_active_states,  \* st.session_state.persona_active_states
    pc,                     \* "rerun", "idle", "awaiting", "merged"
    prompt,                 \* the chat input of the running turn
    tasks,                  \* the coroutines of the running turn, in list order
    overtaken,              \* whether a task of the turn finished before an earlier one
    base,                   \* Len(messages) when the running turn was submitted
    changes                 \* settings changes, generated, edited and deleted personas so far

vars ==
    <<personas, nextId, settings, selected_model, temperature, max_tokens,
      edit_persona_id, messages, active_personas, persona_active_states,
      pc, prompt, tasks, overtaken, base, changes>>

storeVars == <<personas, nextId>>
settingVars == <<settings, selected_model, temperature, max_tokens>>
turnVars == <<prompt, tasks, overtaken, base>>
toggleVars == <<active_personas, persona_active_states>>

\* --------------------------------------------------------------- helpers
Range(s) == {s[i] : i \in 1..Len(s)}

IdsOf(ps) == {ps[i].id : i \in 1..Len(ps)}

RECURSIVE LStrip(_)
LStrip(s) ==
    IF s # <<>> /\ Head(s) = " " THEN LStrip(Tail(s)) ELSE s

RECURSIVE RStrip(_)
RStrip(s) ==
    IF s # <<>> /\ s[Len(s)] = " " THEN RStrip(SubSeq(s, 1, Len(s) - 1)) ELSE s

\* str.strip()
Strip(s) == RStrip(LStrip(s))

\* a text with something to read in it
NonEmptyText(s) == \E i \in 1..Len(s) : s[i] \notin {"", " "}

\* ------------------------------------------------------- persona records
Avatar(id) == <<"avatar", id>>

Persona(id, name, model, temp, tokens) ==
    [id |-> id, name |-> name, avatar |-> Avatar(id), model |-> model,
     temperature |-> temp, max_tokens |-> tokens]

\* PersonaManager(): the personas found in the persisted store at start-up.
\* The file is read as it is: a record in it may carry any numbers.
LoadedStores ==
    {<<>>,
     <<Persona(1, "Ada", "m2", 3, 500)>>,
     <<Persona(1, "Ada", "m2", 15, 4000)>>}

DefaultSettings ==
    [default_model |-> "m1", default_temperature |-> 7, default_max_tokens |-> 300]

\* persona_manager.create_default_persona()
CreateDefaultPersona(ps, nid, st) ==
    Append(ps, Persona(nid, "Ada", st.default_model, st.default_temperature,
                       st.default_max_tokens))

\* main(): personas = list_personas(); if not personas: create_default_persona()
LoadPersonas(ps, nid, st) ==
    IF ps = <<>> THEN CreateDefaultPersona(ps, nid, st) ELSE ps

LoadNextId(ps, nid) == IF ps = <<>> THEN nid + 1 ELSE nid

\* persona_manager.remove_persona(id)
RemovePersona(ps, id) == SelectSeq(ps, LAMBDA p : p.id # id)

\* main(): the dialog handling after the dashboard
DialogHandling(ps, eid) == IF eid \in IdsOf(ps) THEN eid ELSE 0

\* ------------------------------------------------- the sidebar toggles
\* persona_active_states.get(persona.id, True)
GetActiveState(states, id) == IF id \in DOMAIN states THEN states[id] ELSE TRUE

\* st.toggle("Active in Chat", value=is_active, key=f"toggle_{persona.id}"):
\* the stored value, flipped in the run that the user's click on it starts
ToggleValue(states, id, ev) ==
    IF ev = id
    THEN ~GetActiveState(states, id)
    ELSE GetActiveState(states, id)

\* a loop that rebuilds the set from the listed personas only
SyncActiveRebuilt(active, states, ps, ev) ==
    {id \in IdsOf(ps) : ToggleValue(states, id, ev)}

\* render(): the loop over the personas, active_personas.add / discard
SyncActive(active, states, ps, ev) ==
    (active \ IdsOf(ps)) \cup {id \in IdsOf(ps) : ToggleValue(states, id, ev)}

\* render(): the loop over the personas, persona_active_states[persona.id] = ...
SyncStates(states, ps, ev) ==
    [id \in DOMAIN states \cup IdsOf(ps) |->
        IF id \in IdsOf(ps) THEN ToggleValue(states, id, ev) ELSE states[id]]

\* One run of main() that reaches chat_interface.render(): the personas are
\* loaded, the dialog flag is checked, the toggles are read.
Run(ev, st, eid) ==
    /\ personas' = LoadPersonas(personas, nextId, st)
    /\ nextId' = LoadNextId(personas, nextId)
    /\ edit_persona_id' = DialogHandling(personas', eid)
    /\ active_personas' = SyncActive(active_personas, persona_active_states, personas', ev)
    /\ persona_active_states' = SyncStates(persona_active_states, personas', ev)

\* ------------------------------------------------------------ the turn
UserMessage(p) == [role |-> "user", content |-> p, name |-> "You"]

\* a request that carries the global defaults instead of the persona's values
BuildRequestFromDefaults(persona, st, p) ==
    [model |-> st.default_model,
     prompt |-> <<"Previous message: ">> \o p \o <<"\nRespond naturally as ", persona.name, ":">>,
     system |-> <<"You are ", persona.name>>,
     stream |-> FALSE,
     options |-> [temperature |-> st.default_temperature,
                  num_predict |-> st.default_max_tokens]]

\* the json body of session.post
BuildRequest(persona, st, p) ==
    [model |-> persona.model,
     prompt |-> <<"Previous message: ">> \o p \o <<"\nRespond naturally as ", persona.name, ":">>,
     system |-> <<"You are ", persona.name>>,
     stream |-> FALSE,
     options |-> [temperature |-> persona.temperature,
                  num_predict |-> persona.max_tokens]]

\* str(e) of what the try block raises
ErrorText(b) ==
    CASE b.kind = "silent" -> ""
      [] b.kind = "status" -> "Server error '500 Internal Server Error'"
      [] OTHER -> "'response'"

Apology == "Sorry, I'm having trouble responding right now. (Error: "

Failed(b) == b.kind # "reply"

\* a reply passed on as received, an error shown without the apology
ResponseRaw(persona, b) ==
    [role |-> "assistant",
     content |-> IF Failed(b) THEN <<ErrorText(b)>> ELSE b.text,
     name |-> persona.name,
     avatar |-> persona.avatar]

\* a failed call that leaves a turn without text
ResponseSilentFailure(persona, b) ==
    [role |-> "assistant",
     content |-> IF Failed(b) THEN <<>> ELSE Strip(b.text),
     name |-> persona.name,
     avatar |-> persona.avatar]

\* what _get_persona_response_async returns
Response(persona, b) ==
    [role |-> "assistant",
     content |-> IF Failed(b) THEN <<Apology, ErrorText(b), ")">> ELSE Strip(b.text),
     name |-> persona.name,
     avatar |-> persona.avatar]

\* active_personas = [p for p in personas if p.id in st.session_state.active_personas]
ActiveList(ps, active) == SelectSeq(ps, LAMBDA p : p.id \in active)

NewTask(persona) ==
    [persona |-> persona, status |-> "created", request |-> <<>>,
     backend |-> <<>>, result |-> <<>>]

\* responses = await asyncio.gather(*tasks)
Gather(ts) == [i \in 1..Len(ts) |-> ts[i].result[1]]

\* a filter that keeps only the responses with text in them
ValidWithText(responses) == SelectSeq(responses, LAMBDA r : r.content # <<>>)

\* [res for res in responses if res]
Valid(responses) == SelectSeq(responses, LAMBDA r : DOMAIN r # {})

Terminal(t) == t.status \in {"ok", "failed"}

\* ------------------------------------------------------------------ Init
Init ==
    /\ personas \in LoadedStores
    /\ nextId = Len(personas) + 1
    /\ settings = DefaultSettings
    /\ selected_model = settings.default_model
    /\ temperature = settings.default_temperature
    /\ max_tokens = settings.default_max_tokens
    /\ edit_persona_id = 0
    /\ messages = <<>>
    /\ active_personas = {}
    /\ persona_active_states = <<>>
    /\ pc = "rerun"
    /\ prompt = <<>>
    /\ tasks = <<>>
    /\ overtaken = FALSE
    /\ base = 0
    /\ changes = 0

\* --------------------------------------------------------------- actions
\* The run that st.rerun() starts, and the first run of the session.
Rerun ==
    /\ pc \in {"rerun", "merged"}
    /\ Run(0, settings, edit_persona_id)
    /\ pc' = "idle"
    /\ prompt' = <<>>
    /\ tasks' = <<>>
    /\ overtaken' = FALSE
    /\ base' = 0
    /\ UNCHANGED <<settingVars, messages, changes>>

OnModelChange(m) ==
    /\ pc = "idle"
    /\ changes < MaxChanges
    /\ m # selected_model
    /\ selected_model' = m
    /\ settings' = [settings EXCEPT !.default_model = selected_model']
    /\ Run(0, settings', edit_persona_id)
    /\ changes' = changes + 1
    /\ UNCHANGED <<temperature, max_tokens, messages, pc, turnVars>>

OnTemperatureChange(t) ==
    /\ pc = "idle"
    /\ changes < MaxChanges
    /\ t # temperature
    /\ temperature' = t
    /\ settings' = [settings EXCEPT !.default_temperature = temperature']
    /\ Run(0, settings', edit_persona_id)
    /\ changes' = changes + 1
    /\ UNCHANGED <<selected_model, max_tokens, messages, pc, turnVars>>

OnTokensChange(k) ==
    /\ pc = "idle"
    /\ changes < MaxChanges
    /\ k # max_tokens
    /\ max_tokens' = k
    /\ settings' = [settings EXCEPT !.default_max_tokens = max_tokens']
    /\ Run(0, settings', edit_persona_id)
    /\ changes' = changes + 1
    /\ UNCHANGED <<selected_model, temperature, messages, pc, turnVars>>

\* generate_persona(occupation), the manager returns a persona: st.rerun()
GeneratePersona(name) ==
    /\ pc = "idle"
    /\ nextId <= MaxPersonas
    /\ changes < MaxChanges
    /\ personas' = Append(personas,
                          Persona(nextId, name, selected_model, temperature, max_tokens))
    /\ nextId' = nextId + 1
    /\ pc' = "rerun"
    /\ changes' = changes + 1
    /\ UNCHANGED <<settingVars, edit_persona_id, messages, toggleVars, turnVars>>

\* generate_persona(occupation), the manager returns None or raises: the
\* error is shown and the run goes on
GenerateFails ==
    /\ pc = "idle"
    /\ Run(0, settings, edit_persona_id)
    /\ UNCHANGED <<settingVars, messages, pc, turnVars, changes>>

\* the "Edit" button of a card
EditClick(id) ==
    /\ pc = "idle"
    /\ changes < MaxChanges
    /\ id \in IdsOf(personas)
    /\ Run(0, settings, id)
    /\ UNCHANGED <<settingVars, messages, pc, turnVars, changes>>

\* render_persona_edit_dialog: "Save Changes"; without models the three
\* model fields are left as they are
SaveChanges(form, hasModels) ==
    /\ pc = "idle"
    /\ changes < MaxChanges
    /\ edit_persona_id \in IdsOf(personas)
    /\ personas' =
        [i \in 1..Len(personas) |->
            IF personas[i].id # edit_persona_id THEN personas[i]
            ELSE IF hasModels
                THEN [personas[i] EXCEPT !.name = form.name, !.model = form.model,
                                         !.temperature = form.temperature,
                                         !.max_tokens = form.max_tokens]
                ELSE [personas[i] EXCEPT !.name = form.name]]
    /\ edit_persona_id' = 0
    /\ pc' = "rerun"
    /\ changes' = changes + 1
    /\ UNCHANGED <<nextId, settingVars, messages, toggleVars, turnVars>>

\* the "Delete" button of a card: remove_persona, st.rerun()
DeleteClick(id) ==
    /\ pc = "idle"
    /\ id \in IdsOf(personas)
    /\ changes < MaxChanges
    /\ Len(personas) > 1 \/ nextId <= MaxPersonas
    /\ personas' = RemovePersona(personas, id)
    /\ pc' = "rerun"
    /\ changes' = changes + 1
    /\ UNCHANGED <<nextId, settingVars, edit_persona_id, messages, toggleVars,
                   turnVars>>

\* a click on the "Active in Chat" toggle of a persona
Toggle(id) ==
    /\ pc = "idle"
    /\ id \in IdsOf(personas)
    /\ Run(id, settings, edit_persona_id)
    /\ UNCHANGED <<settingVars, messages, pc, turnVars, changes>>

\* a chat input that is also taken while a turn is waiting for its calls
SubmitReentrant(p) ==
    /\ pc \in {"idle", "awaiting"}
    /\ Run(0, settings, edit_persona_id)
    /\ Len(messages) + 1 + Len(ActiveList(personas', active_personas')) <= MaxLog
    /\ messages' = Append(messages, UserMessage(p))
    /\ prompt' = p
    /\ tasks' = [i \in 1..Len(ActiveList(personas', active_personas')) |->
                    NewTask(ActiveList(personas', active_personas')[i])]
    /\ overtaken' = FALSE
    /\ base' = Len(messages)
    /\ pc' = "awaiting"
    /\ UNCHANGED <<settingVars, changes>>

\* a chat input whose user turn is only written with the answers
SubmitDeferred(p) ==
    /\ pc = "idle"
    /\ Run(0, settings, edit_persona_id)
    /\ Len(messages) + 1 + Len(ActiveList(personas', active_personas')) <= MaxLog
    /\ messages' = messages
    /\ prompt' = p
    /\ tasks' = [i \in 1..Len(ActiveList(personas', active_personas')) |->
                    NewTask(ActiveList(personas', active_personas')[i])]
    /\ overtaken' = FALSE
    /\ base' = Len(messages)
    /\ pc' = "awaiting"
    /\ UNCHANGED <<settingVars, changes>>

\* render(): the chat input holds a prompt
Submit(p) ==
    /\ pc = "idle"
    /\ Run(0, settings, edit_persona_id)
    /\ Len(messages) + 1 + Len(ActiveList(personas', active_personas')) <= MaxLog
    /\ messages' = Append(messages, UserMessage(p))
    /\ prompt' = p
    /\ tasks' = [i \in 1..Len(ActiveList(personas', active_personas')) |->
                    NewTask(ActiveList(personas', active_personas')[i])]
    /\ overtaken' = FALSE
    /\ base' = Len(messages)
    /\ pc' = "awaiting"
    /\ UNCHANGED <<settingVars, changes>>

\* task i runs to its await of session.post; b is what the backend will do
Launch(i, b) ==
    /\ pc = "awaiting"
    /\ i \in 1..Len(tasks)
    /\ tasks[i].status = "created"
    /\ \A j \in 1..(i - 1) : tasks[j].status # "created"
    /\ tasks' = [tasks EXCEPT ![i].status = "pending",
                              ![i].request = <<BuildRequest(tasks[i].persona, settings, prompt)>>,
                              ![i].backend = <<b>>]
    /\ UNCHANGED <<storeVars, settingVars, edit_persona_id, messages, toggleVars,
                   pc, prompt, overtaken, base, changes>>

\* a failure that takes the calls still running down with it
ResolvedCancelling(ts, i) ==
    [j \in 1..Len(ts) |->
        IF j = i
        THEN [ts[j] EXCEPT !.status = IF Failed(ts[i].backend[1]) THEN "failed" ELSE "ok",
                           !.result = <<Response(ts[i].persona, ts[i].backend[1])>>]
        ELSE IF Failed(ts[i].backend[1]) /\ ts[j].status = "pending"
        THEN [ts[j] EXCEPT !.status = "failed",
                           !.result = <<Response(ts[j].persona, [kind |-> "silent", text |-> <<>>])>>]
        ELSE ts[j]]

\* the states of the tasks after task i has returned
Resolved(ts, i) ==
    [ts EXCEPT ![i].status = IF Failed(ts[i].backend[1]) THEN "failed" ELSE "ok",
               ![i].result = <<Response(ts[i].persona, ts[i].backend[1])>>]

\* a call without a timeout: it comes back only if the backend answers
ReturnsIfAnswered(t) == t.backend[1].kind \in {"reply", "status", "nofield"}

\* whether the call of a pending task comes back: a reply or an error status
\* arrives, or nothing does and timeout=30.0 expires
Returns(t) == t.backend[1].kind \in {"reply", "status", "nofield", "silent"}

\* the call of task i comes back and the coroutine returns its message
Resolve(i) ==
    /\ pc = "awaiting"
    /\ i \in 1..Len(tasks)
    /\ tasks[i].status = "pending"
    /\ Returns(tasks[i])
    /\ tasks' = Resolved(tasks, i)
    /\ overtaken' = (overtaken \/ \E j \in 1..(i - 1) : ~Terminal(tasks[j]))
    /\ UNCHANGED <<storeVars, settingVars, edit_persona_id, messages, toggleVars,
                   pc, prompt, base, changes>>

\* whether asyncio.gather hands the results back
Joined(ts) == \A i \in 1..Len(ts) : Terminal(ts[i])

\* gather returns, messages.extend(...)
Merge ==
    /\ pc = "awaiting"
    /\ Joined(tasks)
    /\ messages' = messages \o Valid(Gather(tasks))
    /\ pc' = "merged"
    /\ UNCHANGED <<storeVars, settingVars, edit_persona_id, toggleVars,
                   turnVars, changes>>

Next ==
    \/ Rerun
    \/ \E m \in Models : OnModelChange(m)
    \/ \E t \in WidgetTemps : OnTemperatureChange(t)
    \/ \E k \in WidgetTokens : OnTokensChange(k)
    \/ \E n \in GeneratedNames : GeneratePersona(n)
    \/ GenerateFails
    \/ \E id \in Ids : EditClick(id)
    \/ \E f \in EditForms, h \in BOOLEAN : SaveChanges(f, h)
    \/ \E id \in Ids : DeleteClick(id)
    \/ \E id \in Ids : Toggle(id)
    \/ \E p \in Prompts : Submit(p)
    \/ \E i \in Ids, b \in Backends : Launch(i, b)
    \/ \E i \in Ids : Resolve(i)
    \/ Merge

Spec == Init /\ [][Next]_vars

FairSpec ==
    /\ Spec
    /\ \A i \in Ids : WF_vars(\E b \in Backends : Launch(i, b))
    /\ \A i \in Ids : WF_vars(Resolve(i))
    /\ WF_vars(Merge)
    /\ WF_vars(Rerun)

\* ============================================================ properties
\* the personas of the running turn, read from the store and the active set
Responders == ActiveList(personas, active_personas)

Stored(id) == CHOOSE q \in Range(personas) : q.id = id

Launched(t) == t.status # "created"

\* c is t without the whitespace at its two ends
IsTrimOf(c, t) ==
    /\ c = <<>> \/ (c[1] # " " /\ c[Len(c)] # " ")
    /\ \E lo \in 0..Len(t) :
        /\ lo + Len(c) <= Len(t)
        /\ \A k \in 1..Len(c) : t[lo + k] = c[k]
        /\ \A k \in 1..Len(t) : (k <= lo \/ k > lo + Len(c)) => t[k] = " "

\* the fixed apology with the error of the failed call in it
IsPlaceholder(c) == Len(c) = 3 /\ c[1] = Apology /\ c[3] = ")"

\* C1: a dispatch grows the log by exactly 1 + len(active personas) turns, the
\* user turn first and then one agent turn per active persona, in the order
\* of the persona list, whatever the order in which the calls finished.
C1_DispatchAppendsInListOrder ==
    pc = "merged" =>
        /\ Len(messages) = base + 1 + Len(Responders)
        /\ messages[base + 1] = UserMessage(prompt)
        /\ \A i \in 1..Len(Responders) :
            /\ messages[base + 1 + i].role = "assistant"
            /\ messages[base + 1 + i].name = Responders[i].name
            /\ messages[base + 1 + i].avatar = Responders[i].avatar

\* a merged turn of two personas whose second call finished first
C1_Witness == pc = "merged" /\ Len(Responders) >= 2 /\ overtaken

\* C2 as stated: when every call of the turn fails, the user turn is in the
\* log and every active persona has an agent turn whose content is non-empty
\* placeholder text in which the persona's name occurs.
C2_PlaceholderContentNamesPersona ==
    (pc = "merged" /\ \A i \in 1..Len(tasks) : tasks[i].status = "failed") =>
        /\ messages[base + 1] = UserMessage(prompt)
        /\ \A i \in 1..Len(Responders) :
            /\ NonEmptyText(messages[base + 1 + i].content)
            /\ Responders[i].name \in Range(messages[base + 1 + i].content)

\* C2 as amended: when every call of the turn fails, the user turn is in the
\* log and every active persona has an agent turn that carries the persona's
\* name in its name field and whose content is the non-empty apology with the
\* error text in it.
C2_PlaceholderTurnNamesPersona ==
    (pc = "merged" /\ \A i \in 1..Len(tasks) : tasks[i].status = "failed") =>
        /\ messages[base + 1] = UserMessage(prompt)
        /\ Len(messages) = base + 1 + Len(Responders)
        /\ \A i \in 1..Len(Responders) :
            /\ NonEmptyText(messages[base + 1 + i].content)
            /\ IsPlaceholder(messages[base + 1 + i].content)
            /\ messages[base + 1 + i].name = Responders[i].name

\* a merged turn of two personas whose calls all failed, one by timeout
C2_Witness ==
    /\ pc = "merged"
    /\ Len(tasks) >= 2
    /\ \A i \in 1..Len(tasks) : tasks[i].status = "failed"
    /\ \E i \in 1..Len(tasks) : tasks[i].backend[1].kind = "silent"

C4_UserTurnFirst ==
    pc = "awaiting" =>
        /\ Len(messages) = base + 1
        /\ messages[base + 1] = UserMessage(prompt)

\* a turn with one call still running and another one failed
C4_Witness ==
    /\ pc = "awaiting"
    /\ \E i, j \in 1..Len(tasks) :
        tasks[i].status = "pending" /\ tasks[j].status = "failed"

\* C5: the request sent for a persona carries the model, temperature and
\* max_tokens stored for that persona, not the global defaults.
C5_RequestCarriesStoredValues ==
    \A i \in 1..Len(tasks) :
        Launched(tasks[i]) =>
            /\ tasks[i].persona.id \in IdsOf(personas)
            /\ tasks[i].request[1].model = Stored(tasks[i].persona.id).model
            /\ tasks[i].request[1].options.temperature
                    = Stored(tasks[i].persona.id).temperature
            /\ tasks[i].request[1].options.num_predict
                    = Stored(tasks[i].persona.id).max_tokens

\* a request sent after a change of the settings, for a persona whose three
\* values all differ from the defaults
C5_Witness ==
    /\ changes > 0
    /\ settings # DefaultSettings
    /\ \E i \in 1..Len(tasks) :
        /\ Launched(tasks[i])
        /\ tasks[i].request[1].options.temperature \in TempMin..TempMax
        /\ tasks[i].request[1].model # settings.default_model
        /\ tasks[i].request[1].options.temperature # settings.default_temperature
        /\ tasks[i].request[1].options.num_predict # settings.default_max_tokens

\* C6: every request sent has its temperature in [0.0, 1.0] and its
\* max_tokens in [50, 2000], whatever the store holds.
C6_RequestsInBounds ==
    \A i \in 1..Len(tasks) :
        Launched(tasks[i]) =>
            /\ tasks[i].request[1].options.temperature \in TempMin..TempMax
            /\ tasks[i].request[1].options.num_predict \in TokensMin..TokensMax

\* C7: a turn goes Idle, AwaitingResponses, Merged, Idle, and no turn begins
\* while one is waiting: until the merge the log, the prompt and the personas
\* of the turn stay as they are, and the merge appends agent turns only.
C7_OneTurnAtATime ==
    [][/\ pc = "idle" => pc' \in {"idle", "rerun", "awaiting"}
       /\ pc = "rerun" => pc' = "idle"
       /\ pc = "merged" => pc' = "idle"
       /\ pc = "awaiting" =>
            /\ pc' \in {"awaiting", "merged"}
            /\ prompt' = prompt /\ base' = base
            /\ Len(tasks') = Len(tasks)
            /\ \A i \in 1..Len(tasks) : tasks'[i].persona = tasks[i].persona
            /\ pc' = "awaiting" => messages' = messages
            /\ pc' = "merged" =>
                /\ Len(messages') >= Len(messages)
                /\ SubSeq(messages', 1, Len(messages)) = messages
                /\ \A k \in (Len(messages) + 1)..Len(messages') :
                        messages'[k].role = "assistant"]_vars

\* the second turn of a session, merged
C7_Witness == pc = "merged" /\ base > 0 /\ Len(tasks) > 0

\* some step changes whether id is active or what its stored toggle state is
ActiveChanged(id) ==
    \/ (id \in active_personas) # (id \in active_personas')
    \/ (id \in DOMAIN persona_active_states) # (id \in DOMAIN persona_active_states')
    \/ /\ id \in DOMAIN persona_active_states
       /\ id \in DOMAIN persona_active_states'
       /\ persona_active_states[id] # persona_active_states'[id]

\* C8 as stated: the active set and the toggle state of an id change only in
\* the run that a click on the toggle of that id starts.
C8_OnlyToggleChangesActive ==
    [][\A id \in Ids : ActiveChanged(id) => Toggle(id)]_vars

\* C8 as amended: the active set and the toggle state of an id change only in
\* the run that a click on the toggle of that id starts, or in the first run
\* that lists a persona never listed before, which makes it active.
C8_ToggleOrFirstRender ==
    [][\A id \in Ids :
        ActiveChanged(id) =>
            \/ Toggle(id)
            \/ /\ id \notin DOMAIN persona_active_states
               /\ id \in IdsOf(personas')
               /\ id \in active_personas'
               /\ persona_active_states'[id] = TRUE]_vars

\* a deleted persona whose id is still in the active set, and a persona that
\* is switched off, after a merged turn
C8_Witness ==
    /\ pc = "merged"
    /\ \E id \in active_personas : id \notin IdsOf(personas)
    /\ \E id \in DOMAIN persona_active_states :
            id \in IdsOf(personas) /\ ~persona_active_states[id]

\* C9: no agent turn is in the log while a call of the turn is still to be
\* launched or still running, the merge comes after all calls have finished,
\* and a call fails only by its own backend: a failure does not stop another.
C9_FanInBarrier ==
    /\ (pc = "awaiting" /\ \E i \in 1..Len(tasks) : ~Terminal(tasks[i]))
            => Len(messages) = base + 1
    /\ pc = "merged" => \A i \in 1..Len(tasks) : Terminal(tasks[i])
    /\ \A i \in 1..Len(tasks) :
        /\ tasks[i].status = "failed" => Failed(tasks[i].backend[1])
        /\ tasks[i].status = "ok" => ~Failed(tasks[i].backend[1])
        /\ tasks[i].status = "pending" => tasks[i].result = <<>>

\* one call has failed while another one, which the backend answers, runs on
C9_Witness ==
    /\ pc = "awaiting"
    /\ \E i, j \in 1..Len(tasks) :
        /\ tasks[i].status = "failed"
        /\ tasks[j].status = "pending"
        /\ tasks[j].backend[1].kind = "reply"

\* C10: every turn that waits for its calls is merged and every merged turn
\* comes back to idle, also when the backend never answers a call.
C10_TurnTerminates ==
    /\ (pc = "awaiting") ~> (pc = "merged")
    /\ (pc = "merged") ~> (pc = "idle")

\* a merged turn in which the backend never answered any of two calls
C10_Witness ==
    /\ pc = "merged"
    /\ Len(tasks) >= 2
    /\ \A i \in 1..Len(tasks) : tasks[i].backend[1].kind = "silent"

====
